---- MODULE Spec2Model ----
(***************************************************************************)
(* The OBJ viewer of src/components/obj_viewer.py as a state machine:      *)
(* OBJModel (the loader), OBJViewer (one viewer slot: mesh, bounds, view   *)
(* state, GL callbacks, pointer and wheel handlers) and MultiViewOBJViewer *)
(* (the coordinator of two slots).                                         *)
(*                                                                         *)
(* Numbers.  Python floats are held as exact integers in a fixed unit:     *)
(*   - zoom in hundredths (2.0 is 200, 0.1 is 10, 10.0 is 1000); a         *)
(*     multiplication or division by 1.1 rounds to the nearest hundredth;  *)
(*   - rotation angles in half degrees (dx * 0.5 is then dx);              *)
(*   - coordinates parsed by float() are whole numbers, the midpoint of    *)
(*     the bounding box is held as a fraction <<n, d>>, d in {1, 2}.       *)
(* Text.  A line is a sequence of one-character strings, a file is a       *)
(* sequence of lines behind a path, NoFile a path at which none exists.    *)
(***************************************************************************)
EXTENDS Integers, Sequences, FiniteSets, TLC

VARIABLES
    obj_model,          \* [slot -> [vertices, normals, faces]]   OBJViewer.obj_model
    model_center,       \* [slot -> sequence of fractions]        OBJViewer.model_center
    model_size,         \* [slot -> number]                       OBJViewer.model_size
    rotation_x,         \* [slot -> half degrees]
    rotation_y,
    rotation_z,
    zoom,               \* [slot -> hundredths]
    last_pos,           \* [slot -> <<x, y>>]
    current_model_file, \* MultiViewOBJViewer.current_model_file
    call,               \* the handler that ran last: [op, slot]
    ret,                \* what it returned, or the exception that left it
    gl,                 \* the GL commands it issued, in order
    events,             \* handlers run so far (bounded exploration only)
    ref,                \* face reference handed to ParseRef (SpecRef)
    pair,               \* its result (SpecRef)
    notches,            \* the run of wheel events in one direction that ended last (SpecWheel)
    command,            \* the command handed to SubprocessRunner.run_command (SpecRunner)
    result,             \* what run_command handed back (SpecRunner)
    drag,               \* the drag under way: where and at which rotation it began (SpecDrag)
    manager             \* CommandManager: input text, Run button, QProcess (SpecManager)

vars == <<obj_model, model_center, model_size, rotation_x, rotation_y, rotation_z,
          zoom, last_pos, current_model_file, call, ret, gl, events, ref, pair, notches,
          command, result, drag, manager>>

-----------------------------------------------------------------------------
(* Python text primitives used by OBJModel.load. *)

Digits == {"0", "1", "2", "3", "4", "5", "6", "7", "8", "9"}

DigitVal(c) ==
    CASE c = "0" -> 0 [] c = "1" -> 1 [] c = "2" -> 2 [] c = "3" -> 3 [] c = "4" -> 4
      [] c = "5" -> 5 [] c = "6" -> 6 [] c = "7" -> 7 [] c = "8" -> 8 [] c = "9" -> 9

\* str.split(sep): the pieces between separators, empty pieces kept.
RECURSIVE SplitOn(_, _)
SplitOn(s, sep) ==
    IF \A i \in 1..Len(s) : s[i] # sep THEN <<s>>
    ELSE LET k == CHOOSE i \in 1..Len(s) : s[i] = sep /\ \A j \in 1..(i-1) : s[j] # sep
         IN  <<SubSeq(s, 1, k-1)>> \o SplitOn(SubSeq(s, k+1, Len(s)), sep)

\* str.split(): the pieces between runs of whitespace, empty pieces dropped.
split(line) == SelectSeq(SplitOn(line, " "), LAMBDA t : t # <<>>)

\* Value of a non-empty digit string.
RECURSIVE Decimal(_)
Decimal(s) ==
    IF Len(s) = 0 THEN 0
    ELSE 10 * Decimal(SubSeq(s, 1, Len(s)-1)) + DigitVal(s[Len(s)])

\* int(s): an optional sign and at least one digit, anything else is a ValueError.
IntOf(negative, body) ==
    IF Len(body) > 0 /\ \A i \in 1..Len(body) : body[i] \in Digits
    THEN [ok |-> TRUE, val |-> IF negative THEN 0 - Decimal(body) ELSE Decimal(body)]
    ELSE [ok |-> FALSE, val |-> 0]

PyInt(s) ==
    IF Len(s) > 0 /\ s[1] \in {"-", "+"}
    THEN IntOf(s[1] = "-", SubSeq(s, 2, Len(s)))
    ELSE IntOf(FALSE, s)

\* float(s) on tokens written with digits, a sign, letters and "/": the whole
\* numbers int() accepts, as floats.
PyFloat(s) == PyInt(s)

\* values[1:4] of a split line: at most three tokens after the record key.
Slice14(values) == SubSeq(values, 2, IF Len(values) < 4 THEN Len(values) ELSE 4)

\* A list of conversions: the values, or the ValueError of the first that failed.
AllOf(rs) ==
    IF \A i \in 1..Len(rs) : rs[i].ok
    THEN [ok |-> TRUE, val |-> [i \in 1..Len(rs) |-> rs[i].val]]
    ELSE [ok |-> FALSE, val |-> <<>>]

\* list(map(float, values[1:4]))
MapFloat(toks) == AllOf([i \in 1..Len(toks) |-> PyFloat(toks[i])])

\* The pair of one face-vertex reference: vertex index and normal index, each an
\* int() less one; the reference raises when either int() does.
RefOf(vi, ni) ==
    IF vi.ok /\ ni.ok THEN [ok |-> TRUE, val |-> <<vi.val - 1, ni.val - 1>>]
    ELSE [ok |-> FALSE, val |-> <<>>]

\* the normal index of a reference without one: -1, without any int()
Absent == [ok |-> TRUE, val |-> 0]

\* Lines 50-56 on w = v.split('/').
RefPiecesTextureAsNormal(w) ==
    IF Len(w) >= 2 THEN RefOf(PyInt(w[1]), IF w[2] # <<>> THEN PyInt(w[2]) ELSE Absent)
    ELSE RefOf(PyInt(w[1]), Absent)

RefPieces(w) ==
    IF Len(w) >= 3 THEN RefOf(PyInt(w[1]), IF w[3] # <<>> THEN PyInt(w[3]) ELSE Absent)
    ELSE IF Len(w) = 2 THEN RefOf(PyInt(w[1]), PyInt(w[2]))
    ELSE RefOf(PyInt(w[1]), Absent)

\* One face-vertex reference v of an "f" line.
ParseRef(v) == RefPieces(SplitOn(v, "/"))

\* The face of an "f" line: the references in order, or the first ValueError.
ParseFace(toks) == AllOf([i \in 1..Len(toks) |-> ParseRef(toks[i])])

EmptyModel == [vertices |-> <<>>, normals |-> <<>>, faces |-> <<>>]

\* A path: whether a file exists there (os.path.exists, open) and its lines.
NoFile == [exists |-> FALSE, lines |-> <<>>]

FileOf(lines) == [exists |-> TRUE, lines |-> lines]

\* The lists after a record was appended, or as they were if its parse raised.
Appended(m, list, parsed) ==
    IF parsed.ok THEN [ok |-> TRUE, m |-> [m EXCEPT ![list] = Append(@, parsed.val)]]
    ELSE [ok |-> FALSE, m |-> m]

\* Lines 33-57: one line that is no comment, values being line.split().
LoadValues(m, values) ==
    IF values = <<>> THEN [ok |-> TRUE, m |-> m]
    ELSE IF values[1] = <<"v">> THEN Appended(m, "vertices", MapFloat(Slice14(values)))
    ELSE IF values[1] = <<"v", "n">> THEN Appended(m, "normals", MapFloat(Slice14(values)))
    ELSE IF values[1] = <<"f">> THEN Appended(m, "faces", ParseFace(Tail(values)))
    ELSE [ok |-> TRUE, m |-> m]

\* Lines 30-57: one pass of the loop over the lines.
LoadLine(m, line) ==
    IF Len(line) > 0 /\ line[1] = "#" THEN [ok |-> TRUE, m |-> m]
    ELSE LoadValues(m, split(line))

\* The loop over the lines: it ends at the first line that raises.
RECURSIVE LoadLines(_, _, _)
LoadLines(r, lines, i) ==
    IF i > Len(lines) \/ ~r.ok THEN r
    ELSE LoadLines(LoadLine(r.m, lines[i]), lines, i + 1)

\* OBJModel.load: the lists are emptied first, then filled line by line; an
\* exception (open() of a missing file, a ValueError of a line) is caught and
\* answered with False, the lists staying as they are at that point.
load(file) ==
    IF ~file.exists THEN [ok |-> FALSE, m |-> EmptyModel]
    ELSE LoadLines([ok |-> TRUE, m |-> EmptyModel], file.lines, 1)

-----------------------------------------------------------------------------
(* OBJViewer: bounds of the loaded vertices. *)

Slots == {"top_viewer", "bottom_viewer"}

Min(S) == CHOOSE x \in S : \A y \in S : x <= y
Max(S) == CHOOSE x \in S : \A y \in S : x >= y

\* x / 2 as a fraction <<n, d>> in lowest terms.
Half(x) == IF x % 2 = 0 THEN <<x \div 2, 1>> ELSE <<x, 2>>

\* np.array(vertices) is a matrix only when every vertex has the same number of
\* components; np.min / np.max over axis 0 then give one value per component.
Rectangular(vertices) ==
    \A i, j \in 1..Len(vertices) : Len(vertices[i]) = Len(vertices[j])

Width(vertices) == Len(vertices[1])

min_bounds(vertices) ==
    [k \in 1..Width(vertices) |-> Min({vertices[i][k] : i \in 1..Len(vertices)})]

max_bounds(vertices) ==
    [k \in 1..Width(vertices) |-> Max({vertices[i][k] : i \in 1..Len(vertices)})]

\* (min_bounds + max_bounds) / 2
Center(vertices) ==
    [k \in 1..Width(vertices) |-> Half(min_bounds(vertices)[k] + max_bounds(vertices)[k])]

\* np.max(max_bounds - min_bounds), for vertices of at least one component.
Extent(vertices) ==
    Max({max_bounds(vertices)[k] - min_bounds(vertices)[k] : k \in 1..Width(vertices)})

-----------------------------------------------------------------------------
(* What a handler hands back. *)

None == [kind |-> "None", exc |-> "", success |-> FALSE, message |-> <<>>, args |-> <<>>]

Raise(exc) == [kind |-> "raise", exc |-> exc, success |-> FALSE, message |-> <<>>, args |-> <<>>]

\* The tuple (success, message); a formatted message is its text pieces and the
\* numbers formatted into it.
Result(success, message, args) ==
    [kind |-> "return", exc |-> "", success |-> success, message |-> message, args |-> args]

-----------------------------------------------------------------------------
(* OBJViewer: the GL callbacks.  A callback is the list of GL calls it       *)
(* attempts, in order; a call whose argument cannot be fetched carries the   *)
(* exception instead, and the callback ends there.                           *)

Cmd(c, a) == [cmd |-> c, args |-> a, err |-> ""]

Fail(c, e) == [cmd |-> c, args |-> <<>>, err |-> e]

\* gl*3fv(vec): a vector of three floats is expected.  With another length the
\* binding either refuses it (ValueError, array size checking on) or passes it on.
Vec3(c, vec) == [cmd |-> c, args |-> vec, err |-> IF Len(vec) = 3 THEN "" ELSE "ArraySize"]

RECURSIVE Flat(_)
Flat(ss) == IF ss = <<>> THEN <<>> ELSE Head(ss) \o Flat(Tail(ss))

\* Lines 186-195: the first min(3, len(face)) references, each index checked.
FirstThree(m, face) ==
    Flat([i \in 1..(IF Len(face) < 3 THEN Len(face) ELSE 3) |->
            LET vi == face[i][1]
                ni == face[i][2]
            IN  (IF ni >= 0 /\ ni < Len(m.normals)
                 THEN <<Vec3("glNormal3fv", m.normals[ni + 1])>>
                 ELSE <<>>)
                \o
                (IF vi >= 0 /\ vi < Len(m.vertices)
                 THEN <<Vec3("glVertex3fv", m.vertices[vi + 1])>>
                 ELSE <<>>)])

\* list[i] for a Python index: a negative index counts from the end, an index
\* outside -len..len-1 is an IndexError.
InRange(list, i) == i < Len(list) /\ i >= 0 - Len(list)

At(list, i) == IF i >= 0 THEN list[i + 1] ELSE list[Len(list) + i + 1]

\* Lines 200-203 (and 206-209, 212-215): one vertex of a fan triangle; the normal
\* is fetched when ni >= 0, the vertex always.
FanVertex(m, r) ==
    LET vi == r[1]
        ni == r[2]
    IN  (IF ni >= 0
         THEN IF InRange(m.normals, ni) THEN <<Vec3("glNormal3fv", At(m.normals, ni))>>
              ELSE <<Fail("glNormal3fv", "IndexError")>>
         ELSE <<>>)
        \o
        (IF InRange(m.vertices, vi) THEN <<Vec3("glVertex3fv", At(m.vertices, vi))>>
         ELSE <<Fail("glVertex3fv", "IndexError")>>)

\* a strip instead of a fan: the triangle face[i-2], face[i-1], face[i]
FanStrip(m, face) ==
    Flat([k \in 1..(IF Len(face) > 3 THEN Len(face) - 3 ELSE 0) |->
            FanVertex(m, face[k + 1]) \o FanVertex(m, face[k + 2]) \o FanVertex(m, face[k + 3])])

\* Lines 198-215: for i in range(3, len(face)), the triangle face[0], face[i-1], face[i].
Fan(m, face) ==
    Flat([k \in 1..(IF Len(face) > 3 THEN Len(face) - 3 ELSE 0) |->
            FanVertex(m, face[1]) \o FanVertex(m, face[k + 2]) \o FanVertex(m, face[k + 3])])

\* Lines 184-216: the triangle stream of the whole model.
Triangles(m) ==
    <<Cmd("glBegin(GL_TRIANGLES)", <<>>)>>
    \o Flat([f \in 1..Len(m.faces) |-> FirstThree(m, m.faces[f]) \o Fan(m, m.faces[f])])
    \o <<Cmd("glEnd", <<>>)>>

\* OBJViewer._draw_axes: three unit lines from the origin, lighting off.
draw_axes ==
    << Cmd("glDisable(GL_LIGHTING)", <<>>), Cmd("glLineWidth", <<3, 2>>),
       Cmd("glBegin(GL_LINES)", <<>>), Cmd("glColor3f", <<0, 0, 1>>),
       Cmd("glVertex3f", <<0, 0, 0>>), Cmd("glVertex3f", <<1, 0, 0>>), Cmd("glEnd", <<>>),
       Cmd("glBegin(GL_LINES)", <<>>), Cmd("glColor3f", <<0, 1, 0>>),
       Cmd("glVertex3f", <<0, 0, 0>>), Cmd("glVertex3f", <<0, 1, 0>>), Cmd("glEnd", <<>>),
       Cmd("glBegin(GL_LINES)", <<>>), Cmd("glColor3f", <<1, 0, 0>>),
       Cmd("glVertex3f", <<0, 0, 0>>), Cmd("glVertex3f", <<0, 0, 1>>), Cmd("glEnd", <<>>),
       Cmd("glColor3f", <<1, 1, 1>>), Cmd("glEnable(GL_LIGHTING)", <<>>) >>

\* 2.0 / model_size whatever the size
model_scaleUnguarded(size) == <<2, size>>

\* Line 174: 2.0 / model_size if model_size > 0 else 1.0, as a fraction <<n, d>>.
model_scale(size) == IF size > 0 THEN <<2, size>> ELSE <<1, 1>>

\* Line 178: glTranslatef(-center[0], -center[1], -center[2]); the arguments are
\* the three fractions, numerator then denominator.
Translate(center) ==
    IF Len(center) < 3 THEN Fail("glTranslatef", "IndexError")
    ELSE Cmd("glTranslatef", << 0 - center[1][1], center[1][2], 0 - center[2][1],
                                center[2][2], 0 - center[3][1], center[3][2] >>)

\* The fields of one OBJViewer that paintGL can read.
Self(s) == [zoom |-> zoom[s], rotation_x |-> rotation_x[s], rotation_y |-> rotation_y[s],
            rotation_z |-> rotation_z[s], obj_model |-> obj_model[s],
            model_center |-> model_center[s], model_size |-> model_size[s]]

\* What paintGL draws once the view transform is set.
Scene(self) ==
    draw_axes
    \o (IF self.obj_model.vertices # <<>>
        THEN << Cmd("glScalef", model_scale(self.model_size)), Translate(self.model_center),
                Cmd("glMaterialfv", <<>>) >>
             \o Triangles(self.obj_model)
        ELSE <<>>)

\* the yaw of line 166 applied as well
PaintFrameWithYaw(self) ==
    << Cmd("glClear", <<>>), Cmd("glLoadIdentity", <<>>),
       Cmd("glScalef", <<self.zoom, self.zoom, self.zoom>>),
       Cmd("glRotatef", <<self.rotation_z, 0, 0, 1>>),
       Cmd("glRotatef", <<self.rotation_x, 1, 0, 0>>),
       Cmd("glRotatef", <<self.rotation_y, 0, 1, 0>>) >>
    \o Scene(self)

\* OBJViewer.paintGL: every GL call of one frame, as attempted; the rotation
\* about Y (line 166) is commented out in the source.
PaintFrame(self) ==
    << Cmd("glClear", <<>>), Cmd("glLoadIdentity", <<>>),
       Cmd("glScalef", <<self.zoom, self.zoom, self.zoom>>),
       Cmd("glRotatef", <<self.rotation_z, 0, 0, 1>>),
       Cmd("glRotatef", <<self.rotation_x, 1, 0, 0>>) >>
    \o Scene(self)

PaintCalls(s) == PaintFrame(Self(s))

\* Whether an attempted call raises: an IndexError or a ZeroDivisionError in
\* the computation of its arguments always, a vector of the wrong length only
\* under a binding that checks array sizes.
Raises(c, strict) == c.err \notin {"", "ArraySize"} \/ (c.err = "ArraySize" /\ strict)

ExcOf(c) == IF c.err = "ArraySize" THEN "ValueError" ELSE c.err

\* The calls issued before the first one that raises, and how the callback ends.
Issued(calls, n) == [i \in 1..n |-> [cmd |-> calls[i].cmd, args |-> calls[i].args]]

IssueUntil(calls, bad) ==
    IF bad = {} THEN [gl |-> Issued(calls, Len(calls)), ret |-> None]
    ELSE [gl |-> Issued(calls, Min(bad) - 1), ret |-> Raise(ExcOf(calls[Min(bad)]))]

Issue(calls, strict) == IssueUntil(calls, {i \in 1..Len(calls) : Raises(calls[i], strict)})

\* OBJViewer.resizeGL(width, height): aspect = width / height if height > 0 else 1.0;
\* size / aspect and size * aspect with size = 3.0, as fractions <<n, d>>.
OrthoSize == 3

\* the branch of the wider viewport taken whatever the shape
ResizeCallsWide(width, height) ==
    LET one == height <= 0
        an  == IF one THEN 1 ELSE width
        ad  == IF one THEN 1 ELSE height
    IN  << Cmd("glViewport", <<0, 0, width, height>>),
           Cmd("glMatrixMode(GL_PROJECTION)", <<>>), Cmd("glLoadIdentity", <<>>),
           Cmd("glOrtho", << 0 - OrthoSize * an, ad, OrthoSize * an, ad,
                             0 - OrthoSize, 1, OrthoSize, 1,
                             -100, 1, 100, 1 >>),
           Cmd("glMatrixMode(GL_MODELVIEW)", <<>>) >>

ResizeCalls(width, height) ==
    LET one == height <= 0         \* aspect is 1.0
        an  == IF one THEN 1 ELSE width     \* aspect = an / ad
        ad  == IF one THEN 1 ELSE height
    IN  << Cmd("glViewport", <<0, 0, width, height>>),
           Cmd("glMatrixMode(GL_PROJECTION)", <<>>), Cmd("glLoadIdentity", <<>>),
           IF width <= height
           THEN IF an = 0 THEN Fail("glOrtho", "ZeroDivisionError")
                ELSE Cmd("glOrtho", << 0 - OrthoSize, 1, OrthoSize, 1,
                                       0 - OrthoSize * ad, an, OrthoSize * ad, an,
                                       -100, 1, 100, 1 >>)
           ELSE Cmd("glOrtho", << 0 - OrthoSize * an, ad, OrthoSize * an, ad,
                                  0 - OrthoSize, 1, OrthoSize, 1,
                                  -100, 1, 100, 1 >>),
           Cmd("glMatrixMode(GL_MODELVIEW)", <<>>) >>

-----------------------------------------------------------------------------
(* Inputs: pointer positions, wheel deltas, viewport sizes and mesh files.   *)

MaxEvents == 2      \* handlers run in one exploration of the coordinator
MaxInputs == 4      \* pointer and wheel events in one exploration of the two viewers
MaxTurn == 2        \* largest rotation (half degrees) followed in the one-viewer runs
MaxRefLen == 5      \* characters of a face reference
MaxNotches == 50    \* wheel events in a row in one direction

Positions == {<<0, 0>>, <<2, 1>>}

AngleDeltas == {-120, 0, 120}

Sizes == {<<4, 2>>, <<2, 4>>, <<3, 3>>, <<0, 2>>, <<2, 0>>}

Filenames == {"a.obj", "b.obj"}

\* v 0 0 0 / v 1 0 0 / v 0 2 0 / f 1 2 3
Triangle ==
    FileOf(<< <<"v", " ", "0", " ", "0", " ", "0">>,
              <<"v", " ", "1", " ", "0", " ", "0">>,
              <<"v", " ", "0", " ", "2", " ", "0">>,
              <<"f", " ", "1", " ", "2", " ", "3">> >>)

\* v 3 0 0 / f 1/2/a : a vertex, then a reference whose normal int() rejects
Malformed ==
    FileOf(<< <<"v", " ", "3", " ", "0", " ", "0">>,
              <<"f", " ", "1", "/", "2", "/", "a">> >>)

\* a comment, a blank line and a texture record: no v record
NoVertices ==
    FileOf(<< <<"#", " ", "o">>, <<>>, <<"v", "t", " ", "0", " ", "0">> >>)

\* v 0 0 0 / v 1 : the second vertex has one component
Ragged ==
    FileOf(<< <<"v", " ", "0", " ", "0", " ", "0">>, <<"v", " ", "1">> >>)

\* four vertices, one normal, one face of four references v//vn
Quad ==
    FileOf(<< <<"v", " ", "0", " ", "0", " ", "0">>,
              <<"v", " ", "2", " ", "0", " ", "0">>,
              <<"v", " ", "2", " ", "2", " ", "0">>,
              <<"v", " ", "0", " ", "2", " ", "0">>,
              <<"v", "n", " ", "0", " ", "0", " ", "1">>,
              <<"f", " ", "1", "/", "/", "1", " ", "2", "/", "/", "1", " ", "3", "/", "/", "1", " ", "4", "/", "/", "1">> >>)

\* the files of the coordinator runs
Files == {Triangle, Quad, Malformed, NoVertices, Ragged, NoFile}

\* a face whose fourth reference names vertex 7 of 3
FanBeyond ==
    FileOf(<< <<"v", " ", "0", " ", "0", " ", "0">>,
              <<"v", " ", "2", " ", "0", " ", "0">>,
              <<"v", " ", "0", " ", "2", " ", "0">>,
              <<"f", " ", "1", " ", "2", " ", "3", " ", "7">> >>)

\* a face whose fourth reference names normal 2 of 1
FanNormalBeyond ==
    FileOf(<< <<"v", " ", "0", " ", "0", " ", "0">>,
              <<"v", " ", "2", " ", "0", " ", "0">>,
              <<"v", " ", "0", " ", "2", " ", "0">>,
              <<"v", "n", " ", "0", " ", "0", " ", "1">>,
              <<"f", " ", "1", "/", "/", "1", " ", "2", "/", "/", "1", " ", "3", "/", "/", "1", " ", "1", "/", "/", "2">> >>)

\* a face whose fourth reference is 0, index -1 after the conversion
FanZero ==
    FileOf(<< <<"v", " ", "0", " ", "0", " ", "0">>,
              <<"v", " ", "2", " ", "0", " ", "0">>,
              <<"v", " ", "0", " ", "2", " ", "0">>,
              <<"f", " ", "1", " ", "2", " ", "3", " ", "0">> >>)

\* a face whose first reference names vertex 7 of 3, then a sound face
FirstBeyond ==
    FileOf(<< <<"v", " ", "0", " ", "0", " ", "0">>,
              <<"v", " ", "2", " ", "0", " ", "0">>,
              <<"v", " ", "0", " ", "2", " ", "0">>,
              <<"f", " ", "7", " ", "1", " ", "2">>,
              <<"f", " ", "1", " ", "2", " ", "3">> >>)

\* a face of two references, then a sound face
TwoRefs ==
    FileOf(<< <<"v", " ", "0", " ", "0", " ", "0">>,
              <<"v", " ", "2", " ", "0", " ", "0">>,
              <<"v", " ", "0", " ", "2", " ", "0">>,
              <<"f", " ", "1", " ", "2">>,
              <<"f", " ", "1", " ", "2", " ", "3">> >>)

\* two vertices of one component each
OneComponent ==
    FileOf(<< <<"v", " ", "1">>,
              <<"v", " ", "3">> >>)

\* a vertex of one component used by a face
ShortInFace ==
    FileOf(<< <<"v", " ", "0", " ", "0", " ", "0">>,
              <<"v", " ", "1">>,
              <<"f", " ", "2", " ", "2", " ", "2">> >>)

\* five vertices, a face of five references and a face of four
Polygons ==
    FileOf(<< <<"v", " ", "0", " ", "0", " ", "0">>,
              <<"v", " ", "2", " ", "0", " ", "0">>,
              <<"v", " ", "3", " ", "2", " ", "0">>,
              <<"v", " ", "1", " ", "3", " ", "0">>,
              <<"v", " ", "-", "1", " ", "2", " ", "0">>,
              <<"f", " ", "1", " ", "2", " ", "3", " ", "4", " ", "5">>,
              <<"f", " ", "5", " ", "4", " ", "3", " ", "2">> >>)

\* one vertex, and a face on it: every vertex at one point
SinglePoint ==
    FileOf(<< <<"v", " ", "1", " ", "1", " ", "1">>,
              <<"f", " ", "1", " ", "1", " ", "1">> >>)

\* the files of the one-viewer runs of any length
ViewerFiles == {Triangle, Malformed, NoFile}

\* the files of the rendering runs
RenderFiles == {Triangle, Quad, Polygons, SinglePoint, FanBeyond, FanNormalBeyond, FanZero, FirstBeyond, TwoRefs,
                OneComponent, ShortInFace, NoVertices}

AllFiles == Files \cup RenderFiles

-----------------------------------------------------------------------------
(* State after construction: OBJViewer.__init__ for each slot, then the      *)
(* rotations MultiViewOBJViewer.__init__ assigns.                            *)

ZoomInit == 200
ZoomMin == 10
ZoomMax == 1000

\* the bottom viewer left at the pitch OBJViewer.__init__ gives it
InitRotationXUntilted == [s \in Slots |-> 0]

InitRotationX == [s \in Slots |-> IF s = "top_viewer" THEN 0 ELSE -120]
InitRotationY == [s \in Slots |-> IF s = "top_viewer" THEN 0 ELSE 180]
InitRotationZ == [s \in Slots |-> IF s = "top_viewer" THEN 0 ELSE 180]

NoCall == [op |-> "__init__", slot |-> "both"]

\* CommandManager.__init__ and create_ui: the input holds the default command,
\* the Run button is enabled, the QProcess has not been started.
InitManager ==
    [text |-> <<"goad", " ", "--help">>, use_discrete_angles |-> FALSE, run_button |-> TRUE,
     state |-> "NotRunning", program |-> "", arguments |-> <<>>]

InitViewers ==
    /\ obj_model = [s \in Slots |-> EmptyModel]
    /\ model_center = [s \in Slots |-> <<<<0, 1>>, <<0, 1>>, <<0, 1>>>>]
    /\ model_size = [s \in Slots |-> 1]
    /\ rotation_x = InitRotationX
    /\ rotation_y = InitRotationY
    /\ rotation_z = InitRotationZ
    /\ zoom = [s \in Slots |-> ZoomInit]
    /\ last_pos = [s \in Slots |-> <<0, 0>>]
    /\ current_model_file = "None"
    /\ call = NoCall
    /\ ret = None
    /\ gl = <<>>
    /\ events = 0
    /\ notches = [dir |-> "none", count |-> 0, fromInit |-> TRUE]
    /\ drag = [held |-> FALSE, p0 |-> <<0, 0>>, rotation_x |-> 0, rotation_y |-> 0]
    /\ manager = InitManager

InitRunnerIdle ==
    /\ command = [form |-> "none", words |-> <<>>]
    /\ result = None

Init ==
    /\ InitViewers
    /\ InitRunnerIdle
    /\ ref = <<>>
    /\ pair = [ok |-> FALSE, val |-> <<>>]

-----------------------------------------------------------------------------
(* OBJViewer.load_obj *)

\* self.obj_model.load(filename) for each file of the runs, computed once.
Loaded == [f \in AllFiles |-> load(f)]

\* One viewer slot as OBJViewer.load_obj reads and writes it.
Viewer(s) == [obj_model |-> obj_model[s], model_center |-> model_center[s],
              model_size |-> model_size[s]]

\* OBJViewer.load_obj on a slot: the slot afterwards and the outcome.
Loaded_msg == <<"Loaded OBJ model with ", " vertices and ", " faces">>

\* Lines 104-118: the slot once self.obj_model.load(filename) has answered r;
\* the lists of the slot are those the loader left, whatever it answered.
AfterLoad(v, r) ==
    IF r.ok /\ r.m.vertices # <<>>
    THEN IF ~Rectangular(r.m.vertices)
         THEN \* np.array of a ragged list: ValueError (on an older numpy a
              \* TypeError two lines on); nothing but the lists is assigned
              [v |-> [v EXCEPT !.obj_model = r.m], ret |-> Raise("ValueError")]
         ELSE IF Width(r.m.vertices) = 0
         THEN \* np.max of an empty array, once model_center is assigned
              [v |-> [v EXCEPT !.obj_model = r.m, !.model_center = <<>>],
               ret |-> Raise("ValueError")]
         ELSE [v |-> [obj_model |-> r.m,
                      model_center |-> Center(r.m.vertices),
                      model_size |-> Extent(r.m.vertices)],
               ret |-> Result(TRUE, Loaded_msg, <<Len(r.m.vertices), Len(r.m.faces)>>)]
    ELSE [v |-> [v EXCEPT !.obj_model = r.m],
          ret |-> Result(FALSE, <<"Failed to load OBJ file">>, <<>>)]

\* OBJViewer.load_obj on a slot: the slot afterwards and the outcome.
LoadObj(v, filename, file) ==
    IF file.exists THEN AfterLoad(v, Loaded[file])
    ELSE [v |-> v, ret |-> Result(FALSE, <<"File not found: ", filename>>, <<>>)]

-----------------------------------------------------------------------------
(* OBJViewer: the input handlers. *)

meshVars == <<obj_model, model_center, model_size, current_model_file>>
viewVars == <<rotation_x, rotation_y, rotation_z, zoom, last_pos>>

Returns(op, s, r, g) ==
    /\ call' = [op |-> op, slot |-> s]
    /\ ret' = r
    /\ gl' = g

\* self.last_pos = event.position().toPoint()
mousePressEvent(s, pos) ==
    /\ last_pos' = [last_pos EXCEPT ![s] = pos]
    /\ UNCHANGED <<rotation_x, rotation_y, rotation_z, zoom, meshVars>>
    /\ Returns("mousePressEvent", s, None, <<>>)

\* the axes exchanged: dx turns about X, dy about Y
mouseMoveEventSwapped(s, pos, left) ==
    /\ IF left
       THEN /\ rotation_x' = [rotation_x EXCEPT ![s] = @ + (pos[1] - last_pos[s][1])]
            /\ rotation_y' = [rotation_y EXCEPT ![s] = @ + (pos[2] - last_pos[s][2])]
       ELSE UNCHANGED <<rotation_x, rotation_y>>
    /\ last_pos' = [last_pos EXCEPT ![s] = pos]
    /\ UNCHANGED <<rotation_z, zoom, meshVars>>
    /\ Returns("mouseMoveEvent", s, None, <<>>)

\* the position recorded only while the left button is held
mouseMoveEventHeldOnly(s, pos, left) ==
    /\ IF left
       THEN /\ rotation_y' = [rotation_y EXCEPT ![s] = @ + (pos[1] - last_pos[s][1])]
            /\ rotation_x' = [rotation_x EXCEPT ![s] = @ + (pos[2] - last_pos[s][2])]
            /\ last_pos' = [last_pos EXCEPT ![s] = pos]
       ELSE UNCHANGED <<rotation_x, rotation_y, last_pos>>
    /\ UNCHANGED <<rotation_z, zoom, meshVars>>
    /\ Returns("mouseMoveEvent", s, None, <<>>)

\* left: event.buttons() & Qt.MouseButton.LeftButton
mouseMoveEvent(s, pos, left) ==
    /\ IF left
       THEN /\ rotation_y' = [rotation_y EXCEPT ![s] = @ + (pos[1] - last_pos[s][1])]
            /\ rotation_x' = [rotation_x EXCEPT ![s] = @ + (pos[2] - last_pos[s][2])]
       ELSE UNCHANGED <<rotation_x, rotation_y>>
    /\ last_pos' = [last_pos EXCEPT ![s] = pos]
    /\ UNCHANGED <<rotation_z, zoom, meshVars>>
    /\ Returns("mouseMoveEvent", s, None, <<>>)

\* zoom * 1.1 and zoom / 1.1, in hundredths, rounded to the nearest one
Times11(z) == (z * 11 + 5) \div 10
Over11(z) == (z * 20 + 11) \div 22

\* max(0.1, min(zoom, 10.0))
Clamp(z) == Max({ZoomMin, Min({z, ZoomMax})})

\* angleDeltaY: event.angleDelta().y(), 120 per notch
wheelEventUnclamped(s, angleDeltaY) ==
    /\ zoom' = [zoom EXCEPT ![s] = IF angleDeltaY > 0 THEN Times11(@) ELSE Over11(@)]
    /\ UNCHANGED <<rotation_x, rotation_y, rotation_z, last_pos, meshVars>>
    /\ Returns("wheelEvent", s, None, <<>>)

wheelEventAllSlots(s, angleDeltaY) ==
    /\ zoom' = [t \in Slots |->
                  Clamp(IF angleDeltaY > 0 THEN Times11(zoom[t]) ELSE Over11(zoom[t]))]
    /\ UNCHANGED <<rotation_x, rotation_y, rotation_z, last_pos, meshVars>>
    /\ Returns("wheelEvent", s, None, <<>>)

\* the directions exchanged: a forward notch divides
wheelEventReversed(s, angleDeltaY) ==
    /\ zoom' = [zoom EXCEPT ![s] =
                  Clamp(IF angleDeltaY < 0 THEN Times11(@) ELSE Over11(@))]
    /\ UNCHANGED <<rotation_x, rotation_y, rotation_z, last_pos, meshVars>>
    /\ Returns("wheelEvent", s, None, <<>>)

wheelEvent(s, angleDeltaY) ==
    /\ zoom' = [zoom EXCEPT ![s] =
                  Clamp(IF angleDeltaY > 0 THEN Times11(@) ELSE Over11(@))]
    /\ UNCHANGED <<rotation_x, rotation_y, rotation_z, last_pos, meshVars>>
    /\ Returns("wheelEvent", s, None, <<>>)

\* paintGL and resizeGL read the slot and write GL only.
paintGL(s, strict) ==
    \E r \in {Issue(PaintCalls(s), strict)} :
        /\ UNCHANGED <<viewVars, meshVars>>
        /\ Returns("paintGL", s, r.ret, r.gl)

resizeGL(s, width, height) ==
    \E r \in {Issue(ResizeCalls(width, height), TRUE)} :
        /\ UNCHANGED <<viewVars, meshVars>>
        /\ Returns("resizeGL", s, r.ret, r.gl)

\* a load that also puts the view back to the zoom of construction
load_objResetView(s, filename, file) ==
    \E r \in {LoadObj(Viewer(s), filename, file)} :
        /\ obj_model' = [obj_model EXCEPT ![s] = r.v.obj_model]
        /\ model_center' = [model_center EXCEPT ![s] = r.v.model_center]
        /\ model_size' = [model_size EXCEPT ![s] = r.v.model_size]
        /\ zoom' = [zoom EXCEPT ![s] = ZoomInit]
        /\ UNCHANGED <<rotation_x, rotation_y, rotation_z, last_pos, current_model_file>>
        /\ Returns("load_obj", s, r.ret, <<>>)

\* OBJViewer.load_obj(filename), file being what is at that path
load_obj(s, filename, file) ==
    \E r \in {LoadObj(Viewer(s), filename, file)} :
        /\ obj_model' = [obj_model EXCEPT ![s] = r.v.obj_model]
        /\ model_center' = [model_center EXCEPT ![s] = r.v.model_center]
        /\ model_size' = [model_size EXCEPT ![s] = r.v.model_size]
        /\ UNCHANGED <<viewVars, current_model_file>>
        /\ Returns("load_obj", s, r.ret, <<>>)

\* Lines 369-378: the answer of the coordinator, r1 and r2 being what the two
\* viewers answered (r2 is not looked at when the top viewer raised).
BothLoaded(r1, r2) ==
    r1.kind # "raise" /\ r2.kind # "raise" /\ r1.success /\ r2.success

Answer(r1, r2) ==
    IF r1.kind = "raise" THEN Result(FALSE, <<"Exception loading model: ", r1.exc>>, <<>>)
    ELSE IF r2.kind = "raise" THEN Result(FALSE, <<"Exception loading model: ", r2.exc>>, <<>>)
    ELSE IF r1.success /\ r2.success
    THEN Result(TRUE, <<"Model loaded successfully in both views">>, <<>>)
    ELSE IF r1.success
    THEN Result(FALSE, <<"Error loading in second view: ">> \o r2.message, r2.args)
    ELSE Result(FALSE, <<"Error loading model: ">> \o r1.message, r1.args)

\* MultiViewOBJViewer.load_obj(filename): the top viewer reads the path, then
\* the bottom viewer reads it again; file1 and file2 are what each read finds.
\* An exception of the top viewer is caught before the bottom viewer is reached.
MultiView_load_obj(filename, file1, file2) ==
    \E r1 \in {LoadObj(Viewer("top_viewer"), filename, file1)} :
    \E r2 \in {IF r1.ret.kind = "raise"
               THEN [v |-> Viewer("bottom_viewer"), ret |-> None]
               ELSE LoadObj(Viewer("bottom_viewer"), filename, file2)} :
        /\ obj_model' = [s \in Slots |->
                           IF s = "top_viewer" THEN r1.v.obj_model ELSE r2.v.obj_model]
        /\ model_center' = [s \in Slots |->
                           IF s = "top_viewer" THEN r1.v.model_center ELSE r2.v.model_center]
        /\ model_size' = [s \in Slots |->
                           IF s = "top_viewer" THEN r1.v.model_size ELSE r2.v.model_size]
        /\ current_model_file' =
               IF BothLoaded(r1.ret, r2.ret) THEN filename ELSE current_model_file
        /\ UNCHANGED viewVars
        /\ Returns("MultiViewOBJViewer.load_obj", "both", Answer(r1.ret, r2.ret), <<>>)

-----------------------------------------------------------------------------
(* Spec: the coordinator and its two viewers under every interleaving of     *)
(* MaxEvents handler runs.                                                   *)

Step(A) ==
    /\ events < MaxEvents
    /\ A
    /\ events' = events + 1
    /\ UNCHANGED <<ref, pair, notches, command, result, drag, manager>>

Press == \E s \in Slots, pos \in Positions : Step(mousePressEvent(s, pos))

Move == \E s \in Slots, pos \in Positions, left \in BOOLEAN : Step(mouseMoveEvent(s, pos, left))

Wheel == \E s \in Slots, d \in AngleDeltas : Step(wheelEvent(s, d))

Paint == \E s \in Slots, strict \in BOOLEAN : Step(paintGL(s, strict))

Resize == \E s \in Slots, wh \in Sizes : Step(resizeGL(s, wh[1], wh[2]))

Load == \E s \in Slots, n \in Filenames, f \in Files : Step(load_obj(s, n, f))

MultiLoad == \E n \in Filenames, f1 \in Files, f2 \in Files : Step(MultiView_load_obj(n, f1, f2))

Next == Press \/ Move \/ Wheel \/ Paint \/ Resize \/ Load \/ MultiLoad

Spec == Init /\ [][Next]_vars

-----------------------------------------------------------------------------
(* SpecInput: pointer and wheel events on the two viewers, every             *)
(* interleaving of MaxInputs events.                                         *)

StepInput(A) ==
    /\ events < MaxInputs
    /\ A
    /\ events' = events + 1
    /\ UNCHANGED <<ref, pair, notches, command, result, drag, manager>>

InputPress == \E s \in Slots, pos \in Positions : StepInput(mousePressEvent(s, pos))

InputMove ==
    \E s \in Slots, pos \in Positions, left \in BOOLEAN : StepInput(mouseMoveEvent(s, pos, left))

InputWheel == \E s \in Slots, d \in AngleDeltas : StepInput(wheelEvent(s, d))

NextInput == InputPress \/ InputMove \/ InputWheel

SpecInput == Init /\ [][NextInput]_vars

-----------------------------------------------------------------------------
(* SpecViewer: one OBJViewer on its own (the top viewer), any number of      *)
(* events; a drag is followed while the rotation stays within MaxTurn.       *)

TheViewer == "top_viewer"

StepViewer(A) == A /\ UNCHANGED <<events, ref, pair, notches, command, result, drag, manager>>

Within(r) == r <= MaxTurn /\ r >= 0 - MaxTurn

ViewerPress == \E pos \in Positions : StepViewer(mousePressEvent(TheViewer, pos))

ViewerMove ==
    \E pos \in Positions, left \in BOOLEAN :
        /\ StepViewer(mouseMoveEvent(TheViewer, pos, left))
        /\ Within(rotation_x'[TheViewer])
        /\ Within(rotation_y'[TheViewer])

ViewerWheel == \E d \in AngleDeltas : StepViewer(wheelEvent(TheViewer, d))

ViewerPaint == \E strict \in BOOLEAN : StepViewer(paintGL(TheViewer, strict))

ViewerResize == \E wh \in Sizes : StepViewer(resizeGL(TheViewer, wh[1], wh[2]))

ViewerLoad == \E n \in Filenames, f \in ViewerFiles : StepViewer(load_obj(TheViewer, n, f))

NextViewer ==
    ViewerPress \/ ViewerMove \/ ViewerWheel \/ ViewerPaint \/ ViewerResize \/ ViewerLoad

SpecViewer == Init /\ [][NextViewer]_vars

-----------------------------------------------------------------------------
(* SpecRender: one OBJViewer loading the rendering files and drawing them.   *)

RenderLoad == \E n \in Filenames, f \in RenderFiles : StepViewer(load_obj(TheViewer, n, f))

NextRender == RenderLoad \/ ViewerPaint \/ ViewerResize

SpecRender == Init /\ [][NextRender]_vars

-----------------------------------------------------------------------------
(* SpecRef: ParseRef on every face reference of at most MaxRefLen characters. *)

RefChars == {"1", "2", "/", "a", "-"}

RECURSIVE Strings(_, _)
Strings(chars, n) ==
    IF n = 0 THEN {<<>>}
    ELSE LET shorter == Strings(chars, n - 1)
         IN  shorter \cup {Append(t, c) : t \in shorter, c \in chars}

Refs == Strings(RefChars, MaxRefLen)

InitRef ==
    /\ InitViewers
    /\ InitRunnerIdle
    /\ ref \in Refs
    /\ pair = [ok |-> FALSE, val |-> <<>>]

Parse ==
    /\ call = NoCall
    /\ pair' = ParseRef(ref)
    /\ call' = [op |-> "ParseRef", slot |-> "none"]
    /\ UNCHANGED <<obj_model, model_center, model_size, rotation_x, rotation_y, rotation_z,
                   zoom, last_pos, current_model_file, ret, gl, events, ref, notches,
                   command, result, drag, manager>>

NextRef == Parse

SpecRef == InitRef /\ [][NextRef]_vars

-----------------------------------------------------------------------------
(* SpecWheel: wheel events on one OBJViewer, in runs of notches in one       *)
(* direction; notches holds the direction of the run that ended last, its    *)
(* length, and whether every event since construction belongs to it.         *)

Forward == {d \in AngleDeltas : d > 0}
Backward == {d \in AngleDeltas : d < 0}

StepWheel(dir, A) ==
    /\ notches.dir = dir => notches.count < MaxNotches
    /\ A
    /\ notches' = [dir |-> dir,
                   count |-> IF notches.dir = dir THEN notches.count + 1 ELSE 1,
                   fromInit |-> notches.fromInit /\ notches.dir \in {dir, "none"}]
    /\ UNCHANGED <<events, ref, pair, command, result, drag, manager>>

NotchForward == \E d \in Forward : StepWheel("forward", wheelEvent(TheViewer, d))

NotchBackward == \E d \in Backward : StepWheel("backward", wheelEvent(TheViewer, d))

NextWheel == NotchForward \/ NotchBackward

SpecWheel == Init /\ [][NextWheel]_vars

-----------------------------------------------------------------------------
(* SpecDrag: presses, moves with the left button held and moves without it   *)
(* on one OBJViewer, MaxDragEvents of them; drag holds where the press that  *)
(* began the drag under way was, and the rotation at that time.              *)

MaxDragEvents == 5

DragPositions == {<<0, 0>>, <<2, 1>>, <<1, 3>>}

StepDrag(A) ==
    /\ events < MaxDragEvents
    /\ A
    /\ events' = events + 1
    /\ UNCHANGED <<ref, pair, notches, command, result, manager>>

DragPress ==
    \E pos \in DragPositions :
        /\ StepDrag(mousePressEvent(TheViewer, pos))
        /\ drag' = [held |-> TRUE, p0 |-> pos, rotation_x |-> rotation_x[TheViewer],
                    rotation_y |-> rotation_y[TheViewer]]

\* a move with the button held follows a press
DragMove ==
    \E pos \in DragPositions :
        /\ drag.held
        /\ StepDrag(mouseMoveEvent(TheViewer, pos, TRUE))
        /\ UNCHANGED drag

\* a move without the button: the drag, if any, is over
DragHover ==
    \E pos \in DragPositions :
        /\ StepDrag(mouseMoveEvent(TheViewer, pos, FALSE))
        /\ drag' = [drag EXCEPT !.held = FALSE]

NextDrag == DragPress \/ DragMove \/ DragHover

SpecDrag == Init /\ [][NextDrag]_vars

-----------------------------------------------------------------------------
(* SubprocessRunner (src/core/subprocess_runner.py).  A command is a string  *)
(* or a list of words; text is a sequence of pieces (words, " ", "\n").      *)

MaxArgs == 3        \* words of a command

Words == {"echo", "Hello", "World", "false", "non_existent_command"}

\* The programs the shell finds on its path.
Installed == {"echo", "false"}

Whitespace == {" ", "\n"}

RECURSIVE Join(_)
Join(ws) ==
    IF Len(ws) = 0 THEN <<>>
    ELSE IF Len(ws) = 1 THEN <<ws[1]>>
    ELSE <<ws[1], " ">> \o Join(Tail(ws))

\* One process: echo prints its arguments and a newline, false exits with 1,
\* a name the shell does not find makes the shell exit with 127.
Exec(argv) ==
    IF argv[1] = "echo"
    THEN [returncode |-> 0, stdout |-> Join(Tail(argv)) \o <<"\n">>, stderr |-> <<>>]
    ELSE IF argv[1] = "false"
    THEN [returncode |-> 1, stdout |-> <<>>, stderr |-> <<>>]
    ELSE [returncode |-> 127, stdout |-> <<>>,
          stderr |-> <<"/bin/sh: 1: ", argv[1], ": not found", "\n">>]

\* subprocess.run(command, shell=True, ...): a string is the command line; of a
\* list the first item is the command line and the other items are arguments
\* of the shell itself, which a command line without $1, $2 never reads.
Shell(cmd) ==
    IF cmd.form = "str" THEN Exec(cmd.words) ELSE Exec(<<cmd.words[1]>>)

Str(text) == [type |-> "str", text |-> text, items |-> <<>>]

Tuple(items) == [type |-> "tuple", text |-> <<>>, items |-> items]

Return(value) == [kind |-> "return", exc |-> "", value |-> value]

\* Lines 5-9: check=True turns an exit code other than 0 into a
\* CalledProcessError, which is caught; either way the pair
\* (stdout, stderr), decoded, is returned.
RunCommand(cmd) ==
    IF Shell(cmd).returncode = 0
    THEN Return(Tuple(<<Str(Shell(cmd).stdout), Str(Shell(cmd).stderr)>>))
    ELSE Return(Tuple(<<Str(Shell(cmd).stdout), Str(Shell(cmd).stderr)>>))

Commands ==
    {[form |-> f, words |-> w] :
        f \in {"str", "list"}, w \in Strings(Words, MaxArgs) \ {<<>>}}

InitRunner ==
    /\ InitViewers
    /\ ref = <<>>
    /\ pair = [ok |-> FALSE, val |-> <<>>]
    /\ command \in Commands
    /\ result = None

run_command ==
    /\ call = NoCall
    /\ result' = RunCommand(command)
    /\ call' = [op |-> "run_command", slot |-> "none"]
    /\ UNCHANGED <<obj_model, model_center, model_size, rotation_x, rotation_y, rotation_z,
                   zoom, last_pos, current_model_file, ret, gl, events, ref, pair, notches,
                   command, drag, manager>>

NextRunner == run_command

SpecRunner == InitRunner /\ [][NextRunner]_vars

-----------------------------------------------------------------------------
(* CommandManager (src/components/command_manager.py): the command input,    *)
(* the Run button and the QProcess behind it.  The text of the input is a    *)
(* sequence of pieces, each one word or one blank.  manager.run_button is    *)
(* whether the button is enabled, manager.state the QProcess state.          *)

MaxPieces == 3      \* pieces of the input text

Texts ==
    {t \in Strings({"goad", "--discrete", "--discrete=9", " "}, MaxPieces) :
        \A i \in 1..(Len(t) - 1) : t[i] = " " \/ t[i+1] = " "}

\* word.startswith("--discrete=")
StartsWithDiscreteEq(w) == w \in {"--discrete=9", "--discrete=0.0,0.0,0.0"}

\* command_text.split(): the words of the text
Parts(text) == [i \in 1..Len(split(text)) |-> split(text)[i][1]]

\* Lines 284-290, the angles being those __init__ sets: the first "--discrete" followed by a word gets the angles as
\* that word, or the first "--discrete=..." is rewritten, whichever comes first.
RECURSIVE ReplaceDiscrete(_, _)
ReplaceDiscrete(parts, i) ==
    IF i > Len(parts) THEN parts
    ELSE IF parts[i] = "--discrete" /\ i + 1 <= Len(parts)
    THEN [parts EXCEPT ![i + 1] = "0.0,0.0,0.0"]
    ELSE IF StartsWithDiscreteEq(parts[i])
    THEN [parts EXCEPT ![i] = "--discrete=0.0,0.0,0.0"]
    ELSE ReplaceDiscrete(parts, i + 1)

\* Lines 272-291: the command text with the discrete angles worked in.
CommandText(text, discrete) ==
    IF ~discrete THEN text
    ELSE IF \A i \in 1..Len(text) : text[i] # "--discrete" /\ ~StartsWithDiscreteEq(text[i])
    THEN text \o <<" ", "--discrete", " ", "0.0,0.0,0.0">>
    ELSE Join(ReplaceDiscrete(Parts(text), 1))

\* The slot bodies: both re-enable the Run button.
_process_finished(m) == [m EXCEPT !.run_button = TRUE]

_process_error(m) == [m EXCEPT !.run_button = TRUE]

StepManager(op, A) ==
    /\ A
    /\ call' = [op |-> op, slot |-> "none"]
    /\ UNCHANGED <<obj_model, model_center, model_size, rotation_x, rotation_y, rotation_z,
                   zoom, last_pos, current_model_file, gl, events, ref, pair, notches,
                   command, result, drag>>

\* The user edits the command input.
EditInput(text) ==
    StepManager("textEdited", manager' = [manager EXCEPT !.text = text] /\ ret' = None)

reset_command ==
    StepManager("reset_command",
                manager' = [manager EXCEPT !.text = InitManager.text] /\ ret' = None)

_toggle_discrete_angles(enabled) ==
    StepManager("_toggle_discrete_angles",
                manager' = [manager EXCEPT !.use_discrete_angles = enabled] /\ ret' = None)

\* Lines 261-314.  The slot is connected to the button's clicked signal only
\* (line 190), which a disabled button does not emit.  QProcess refuses
\* setProgram, setArguments and start with a warning unless it is NotRunning.
CommandManager_run_command ==
    StepManager("CommandManager.run_command",
        /\ manager.run_button
        /\ IF manager.text = <<>>
           THEN manager' = manager /\ ret' = None
           ELSE \E parts \in {Parts(CommandText(manager.text, manager.use_discrete_angles))} :
                  IF parts = <<>>
                  THEN /\ manager' = [manager EXCEPT !.run_button = FALSE]
                       /\ ret' = Raise("IndexError")
                  ELSE /\ manager' =
                            IF manager.state # "NotRunning"
                            THEN [manager EXCEPT !.run_button = FALSE]
                            ELSE [manager EXCEPT !.run_button = FALSE,
                                                 !.state = "Starting",
                                                 !.program = parts[1],
                                                 !.arguments = Tail(parts)]
                       /\ ret' = None)

\* The QProcess: a start succeeds or fails; a running process exits, crashes
\* (errorOccurred, then finished) or has a read fail while it goes on running.
ProcessStarted ==
    StepManager("started",
        /\ manager.state = "Starting"
        /\ manager' = [manager EXCEPT !.state = "Running"]
        /\ ret' = None)

ProcessFailedToStart ==
    StepManager("_process_error",
        /\ manager.state = "Starting"
        /\ manager' = _process_error([manager EXCEPT !.state = "NotRunning"])
        /\ ret' = None)

ProcessExited ==
    StepManager("_process_finished",
        /\ manager.state = "Running"
        /\ manager' = _process_finished([manager EXCEPT !.state = "NotRunning"])
        /\ ret' = None)

ProcessCrashed ==
    StepManager("_process_finished",
        /\ manager.state = "Running"
        /\ manager' = _process_finished(_process_error([manager EXCEPT !.state = "NotRunning"]))
        /\ ret' = None)

ProcessReadError ==
    StepManager("_process_error",
        /\ manager.state = "Running"
        /\ manager' = _process_error(manager)
        /\ ret' = None)

NextManager ==
    \/ \E text \in Texts : EditInput(text)
    \/ reset_command
    \/ \E enabled \in BOOLEAN : _toggle_discrete_angles(enabled)
    \/ CommandManager_run_command
    \/ ProcessStarted
    \/ ProcessFailedToStart
    \/ ProcessExited
    \/ ProcessCrashed
    \/ ProcessReadError

SpecManager == Init /\ [][NextManager]_vars

-----------------------------------------------------------------------------
(* Claims. *)

LoadOps == {"load_obj", "MultiViewOBJViewer.load_obj"}

InputOps == {"mousePressEvent", "mouseMoveEvent", "wheelEvent"}

Other(s) == IF s = "top_viewer" THEN "bottom_viewer" ELSE "top_viewer"

ViewState(s) == <<rotation_x[s], rotation_y[s], rotation_z[s], zoom[s], last_pos[s]>>

\* The slot holds a mesh as a successful load leaves it: vertices of three
\* components, and the bounds computed from them.
HoldsLoadedMesh(s) ==
    /\ obj_model[s].vertices # <<>>
    /\ \A i \in 1..Len(obj_model[s].vertices) : Len(obj_model[s].vertices[i]) = 3
    /\ model_center[s] = Center(obj_model[s].vertices)
    /\ model_size[s] = Extent(obj_model[s].vertices)

\* The file cannot be loaded: it is not there, or one of its lines raises.
Unloadable(f) == ~f.exists \/ ~Loaded[f].ok

\* C1: a load that fails (file not found, or a parse error), at the viewer's
\* load_obj or at the coordinator's, leaves the vertices, normals and faces of
\* every slot that held a loaded mesh as they were before the call.
C1_FailedLoadKeepsMesh ==
    [][ \A n \in Filenames, f \in Files :
          Unloadable(f) =>
            /\ \A s \in Slots :
                 (HoldsLoadedMesh(s) /\ load_obj(s, n, f)) => obj_model' = obj_model
            /\ \A f2 \in Files :
                 ((\A s \in Slots : HoldsLoadedMesh(s)) /\ MultiView_load_obj(n, f, f2))
                 => obj_model' = obj_model ]_vars

\* C2: when a line of the file raises, the slot shows none of the records of the
\* lines before it: its lists are those it had before the call, or empty.
C2_NoPartialMesh ==
    [][ \A s \in Slots, n \in Filenames, f \in Files :
          (f.exists /\ ~Loaded[f].ok /\ HoldsLoadedMesh(s) /\ load_obj(s, n, f))
          => obj_model'[s] \in {obj_model[s], EmptyModel} ]_vars

\* C3: in every reachable state of a viewer, 0.1 <= zoom <= 10.0.
C3_ZoomClamped == \A s \in Slots : zoom[s] >= ZoomMin /\ zoom[s] <= ZoomMax

\* the wheel has driven the zoom of the viewer to the ceiling
C3_Witness == call.op = "wheelEvent" /\ zoom[TheViewer] = ZoomMax

\* C4: a pointer press, pointer move or wheel event of one slot leaves the
\* rotations, zoom and last pointer position of the other slot unchanged.
C4_SlotsIndependent ==
    [][ \A s \in Slots :
          (call'.op \in InputOps /\ call'.slot = s) => ViewState(Other(s))' = ViewState(Other(s))
      ]_vars

\* the top viewer was dragged and zoomed, then the bottom viewer was dragged,
\* and the top viewer still has what its own events gave it
C4_Witness ==
    /\ call.op = "mouseMoveEvent" /\ call.slot = "bottom_viewer"
    /\ rotation_y["bottom_viewer"] # InitRotationY["bottom_viewer"]
    /\ rotation_y["top_viewer"] # InitRotationY["top_viewer"]
    /\ zoom["top_viewer"] # ZoomInit
    /\ zoom["bottom_viewer"] = ZoomInit

\* C5: after a successful load of the coordinator both slots hold one and the
\* same mesh and bounds, whatever happens to the file during the call.
C5_OneMeshInBothSlots ==
    (call.op = "MultiViewOBJViewer.load_obj" /\ ret.success)
    => Viewer("top_viewer") = Viewer("bottom_viewer")

\* Every vertex and normal of the slot has three components, and so has the center.
WellFormed(s) ==
    /\ \A i \in 1..Len(obj_model[s].vertices) : Len(obj_model[s].vertices[i]) = 3
    /\ \A i \in 1..Len(obj_model[s].normals) : Len(obj_model[s].normals[i]) = 3
    /\ Len(model_center[s]) = 3

\* C6: paintGL never raises on a mesh of three-component vertices and normals,
\* whatever the indices of its faces are.
C6_PaintNeverRaises ==
    (call.op = "paintGL" /\ WellFormed(call.slot)) => ret.kind # "raise"

\* C7: every load returns a (success, message) value, none raises.
C7_LoadNeverRaises == call.op \in LoadOps => ret.kind = "return"

\* C8: loading an existing file that parses without error and holds no v record
\* reports success.
C8_EmptyMeshIsSuccess ==
    [][ \A s \in Slots, n \in Filenames, f \in Files :
          (f.exists /\ Loaded[f].ok /\ Loaded[f].m.vertices = <<>> /\ load_obj(s, n, f))
          => (ret'.kind = "return" /\ ret'.success) ]_vars

\* A 1-based index as the file writes it: a non-empty string of digits.
IsIndex(t) == t # <<>> /\ \A i \in 1..Len(t) : t[i] \in Digits

Parsed == call.op = "ParseRef"

\* The pieces of the parsed reference between its slashes.
Pieces == SplitOn(ref, "/")

\* The parsed reference has the form v, v/vt, v/vt/ or v// : no normal component.
NoNormalForm ==
    /\ Len(Pieces) <= 3
    /\ IsIndex(Pieces[1])
    /\ Len(Pieces) >= 2 => (Pieces[2] = <<>> \/ IsIndex(Pieces[2]))
    /\ Len(Pieces) = 2 => Pieces[2] # <<>>
    /\ Len(Pieces) = 3 => Pieces[3] = <<>>

\* C9: a reference that supplies no normal component is stored as (v - 1, -1).
C9_NoNormalIsAbsent ==
    (Parsed /\ NoNormalForm) => (pair.ok /\ pair.val = <<Decimal(Pieces[1]) - 1, -1>>)

\* The parsed reference has the form v//vn or v/vt/vn.
NormalForm ==
    /\ Len(Pieces) = 3
    /\ IsIndex(Pieces[1])
    /\ Pieces[2] = <<>> \/ IsIndex(Pieces[2])
    /\ IsIndex(Pieces[3])

\* C10: v//vn and v/vt/vn both resolve to (v - 1, vn - 1), v alone to (v - 1, -1).
C10_GrammarsAgree ==
    Parsed =>
        /\ NormalForm =>
              (pair.ok /\ pair.val = <<Decimal(Pieces[1]) - 1, Decimal(Pieces[3]) - 1>>)
        /\ (Len(Pieces) = 1 /\ IsIndex(ref)) =>
              (pair.ok /\ pair.val = <<Decimal(ref) - 1, -1>>)

\* the reference 2/1/2 was parsed to (1, 1), the pair of 2//2
C10_Witness ==
    /\ Parsed
    /\ ref = <<"2", "/", "1", "/", "2">>
    /\ pair = [ok |-> TRUE, val |-> <<1, 1>>]

\* The vertices handed to glVertex3fv in the frame drawn last, three to a triangle.
Drawn == SelectSeq(gl, LAMBDA c : c.cmd = "glVertex3fv")

EmittedTriangles ==
    [k \in 1..(Len(Drawn) \div 3) |->
        <<Drawn[3 * k - 2].args, Drawn[3 * k - 1].args, Drawn[3 * k].args>>]

\* Every reference of the face names a vertex of the mesh, and a normal of the
\* mesh or none.
RefsInRange(m, face) ==
    \A i \in 1..Len(face) :
        /\ face[i][1] >= 0 /\ face[i][1] < Len(m.vertices)
        /\ face[i][2] < Len(m.normals)

\* The fan of a face of n references: triangle k is (face[0], face[k], face[k+1]),
\* k = 1..n-2, as the coordinates of the three vertices.
FanOf(m, face) ==
    [k \in 1..(Len(face) - 2) |->
        << m.vertices[face[1][1] + 1], m.vertices[face[k + 1][1] + 1],
           m.vertices[face[k + 2][1] + 1] >>]

\* the mesh drawn last has a face of more than 3 references, and every face of
\* it has at least 3, all in range
FanCase ==
    /\ call.op = "paintGL"
    /\ WellFormed(call.slot)
    /\ obj_model[call.slot].vertices # <<>>
    /\ \E f \in 1..Len(obj_model[call.slot].faces) : Len(obj_model[call.slot].faces[f]) > 3
    /\ \A f \in 1..Len(obj_model[call.slot].faces) :
          /\ Len(obj_model[call.slot].faces[f]) >= 3
          /\ RefsInRange(obj_model[call.slot], obj_model[call.slot].faces[f])

\* C11: a face of n > 3 references in range is drawn as exactly n - 2 triangles,
\* triangle k being (face[0], face[k], face[k+1]); the triangles of the frame
\* are those of its faces, face after face, and the frame does not raise.
C11_FanTriangles ==
    FanCase =>
        /\ ret.kind # "raise"
        /\ Len(Drawn) % 3 = 0
        /\ EmittedTriangles =
             Flat([f \in 1..Len(obj_model[call.slot].faces) |->
                     FanOf(obj_model[call.slot], obj_model[call.slot].faces[f])])

\* the face of five references and the face of four were drawn: 3 + 2 triangles
C11_Witness ==
    /\ FanCase
    /\ obj_model[call.slot] = Loaded[Polygons].m
    /\ Len(EmittedTriangles) = 5

\* The glScalef calls of the frame drawn last: the zoom, then the model scale.
ScaleCalls == SelectSeq(gl, LAMBDA c : c.cmd = "glScalef")

\* C12: no frame ends in a division by zero; the frame of a mesh with vertices
\* scales the model by 1 when the stored extent is 0 and by 2 / extent when it
\* is positive, and the frame of an empty mesh scales by the zoom only.
C12_ScaleOfExtent ==
    call.op = "paintGL" =>
        /\ ret.exc # "ZeroDivisionError"
        /\ \A i \in 1..Len(gl) : gl[i].cmd = "glScalef" => gl[i].args[Len(gl[i].args)] # 0
        /\ obj_model[call.slot].vertices = <<>> => Len(ScaleCalls) = 1
        /\ obj_model[call.slot].vertices # <<>> =>
              /\ Len(ScaleCalls) = 2
              /\ model_size[call.slot] = 0 => ScaleCalls[2].args = <<1, 1>>
              /\ model_size[call.slot] > 0 => ScaleCalls[2].args = <<2, model_size[call.slot]>>

\* the mesh whose vertices are all at one point was drawn at scale 1
C12_Witness ==
    /\ call.op = "paintGL"
    /\ obj_model[call.slot] = Loaded[SinglePoint].m
    /\ model_size[call.slot] = 0
    /\ ScaleCalls[2].args = <<1, 1>>

\* What the viewer of slot s answers to load_obj(n) when f is at the path.
AnswerOf(s, n, f) == LoadObj(Viewer(s), n, f).ret

Accepts(s, n, f) == AnswerOf(s, n, f).kind = "return" /\ AnswerOf(s, n, f).success

\* C13: when the top viewer accepts the mesh and the bottom viewer fails, the
\* coordinator returns failure with a message that names the second view, the
\* top viewer keeps the mesh it just loaded, and current_model_file stays.
C13_PartialFailure ==
    [][ \A n \in Filenames, f1 \in Files, f2 \in Files :
          ( /\ Accepts("top_viewer", n, f1)
            /\ ~Accepts("bottom_viewer", n, f2)
            /\ MultiView_load_obj(n, f1, f2) )
          => /\ ret'.kind = "return" /\ ~ret'.success
             /\ Head(ret'.message) = "Error loading in second view: "
             /\ obj_model'["top_viewer"] = Loaded[f1].m
             /\ current_model_file' = current_model_file ]_vars

\* C14: a forward notch never lowers the zoom and leaves it at 10.0 once it is
\* there, a backward notch never raises it and leaves it at 0.1 once it is
\* there; 49 notches in a row reach the ceiling (the floor) from any zoom, and
\* from the zoom 2.0 of construction 30 forward notches give exactly 10.0.
C14_WheelConverges ==
    [][ /\ notches'.dir = "forward" =>
             /\ zoom'[TheViewer] >= zoom[TheViewer]
             /\ zoom[TheViewer] = ZoomMax => zoom'[TheViewer] = ZoomMax
             /\ notches'.count >= 49 => zoom'[TheViewer] = ZoomMax
             /\ (notches'.fromInit /\ notches'.count = 30) => zoom'[TheViewer] = ZoomMax
        /\ notches'.dir = "backward" =>
             /\ zoom'[TheViewer] <= zoom[TheViewer]
             /\ zoom[TheViewer] = ZoomMin => zoom'[TheViewer] = ZoomMin
             /\ notches'.count >= 49 => zoom'[TheViewer] = ZoomMin ]_vars

\* thirty forward notches since construction, and the zoom is 10.0
C14_Witness ==
    /\ notches = [dir |-> "forward", count |-> 30, fromInit |-> TRUE]
    /\ zoom[TheViewer] = ZoomMax

\* str.strip(): the text without the whitespace at its two ends.
RECURSIVE lstrip(_)
lstrip(text) ==
    IF text # <<>> /\ Head(text) \in Whitespace THEN lstrip(Tail(text)) ELSE text

RECURSIVE rstrip(_)
rstrip(text) ==
    IF text # <<>> /\ text[Len(text)] \in Whitespace
    THEN rstrip(SubSeq(text, 1, Len(text) - 1)) ELSE text

strip(text) == lstrip(rstrip(text))

Ran == call.op = "run_command"

\* the command line as the caller wrote it: an installed program and its arguments
Program == command.words[1]

\* C15: run_command on a command that succeeds (echo and its arguments) returns
\* the standard output as one text value, and stripping it gives the text the
\* command was to print.
C15_ReturnsStdoutText ==
    (Ran /\ Program = "echo") =>
        /\ result.kind = "return"
        /\ result.value.type = "str"
        /\ strip(result.value.text) = Join(Tail(command.words))

\* C16: run_command on a command that does not exist raises an exception; it
\* returns no output value.
C16_MissingCommandRaises ==
    (Ran /\ Program \notin Installed) => result.kind = "raise"

\* An angle in degrees, in the half degrees the rotations are held in.
Degrees(d) == 2 * d

C18_DragRotates ==
    [][ \A s \in Slots, pos \in Positions :
          /\ mouseMoveEvent(s, pos, TRUE) =>
                /\ 2 * (rotation_y'[s] - rotation_y[s]) = Degrees(pos[1] - last_pos[s][1])
                /\ 2 * (rotation_x'[s] - rotation_x[s]) = Degrees(pos[2] - last_pos[s][2])
                /\ last_pos'[s] = pos
                /\ rotation_z'[s] = rotation_z[s]
                /\ zoom'[s] = zoom[s]
          /\ mousePressEvent(s, pos) =>
                /\ last_pos'[s] = pos
                /\ rotation_x'[s] = rotation_x[s]
                /\ rotation_y'[s] = rotation_y[s]
                /\ rotation_z'[s] = rotation_z[s]
                /\ zoom'[s] = zoom[s] ]_vars

\* the top viewer was dragged by (2, 1) from (0, 0): one degree about Y, half a
\* degree about X
C18_Witness ==
    /\ call = [op |-> "mouseMoveEvent", slot |-> "top_viewer"]
    /\ last_pos["top_viewer"] = <<2, 1>>
    /\ rotation_y["top_viewer"] = Degrees(1)
    /\ 2 * rotation_x["top_viewer"] = Degrees(1)
    /\ rotation_z["top_viewer"] = Degrees(0)

\* The rotations about Y of the one-viewer runs, and some beyond them.
Yaws == (0 - MaxTurn - 1)..(MaxTurn + 1)

NonInputOps == {"load_obj", "MultiViewOBJViewer.load_obj", "resizeGL", "paintGL"}

\* C20: load_obj (of a viewer or of the coordinator, successful or failed),
\* resizeGL and paintGL leave the rotations, zoom and last pointer position of
\* every slot unchanged; paintGL leaves the mesh and bounds unchanged as well,
\* and a second paintGL of the same slot, its vectors all of three components,
\* issues the same GL calls as the first.
C20_ViewStateOnlyByInput ==
    [][ /\ call'.op \in NonInputOps => \A s \in Slots : ViewState(s)' = ViewState(s)
        /\ call'.op = "paintGL" =>
             /\ \A s \in Slots : Viewer(s)' = Viewer(s)
             /\ current_model_file' = current_model_file
             /\ (call.op = "paintGL" /\ call.slot = call'.slot /\ WellFormed(call.slot))
                  => (gl' = gl /\ ret' = ret) ]_vars

\* a viewer zoomed by the wheel loaded a mesh and has the zoom the wheel gave it
C20_Witness ==
    /\ call.op = "load_obj"
    /\ ret.success
    /\ obj_model[call.slot].vertices # <<>>
    /\ zoom[call.slot] # ZoomInit

Resized == call.op = "resizeGL"

\* The viewport of the resize that ran last, as handed to glViewport.
ViewportWidth == gl[1].args[3]
ViewportHeight == gl[1].args[4]

\* Its glOrtho call: left, right, bottom, top, near, far, each a fraction.
Ortho == SelectSeq(gl, LAMBDA c : c.cmd = "glOrtho")[1].args

\* C21: for a viewport of positive width and height the half-extent of the
\* orthographic volume is 3.0 along the narrower dimension and 3.0 times
\* longer / shorter along the other, symmetric about 0, whatever the zoom is.
C21_OrthoHalfExtent ==
    (Resized /\ ViewportWidth > 0 /\ ViewportHeight > 0) =>
        /\ ret = None
        /\ Ortho[1] = 0 - Ortho[3] /\ Ortho[2] = Ortho[4]
        /\ Ortho[5] = 0 - Ortho[7] /\ Ortho[6] = Ortho[8]
        /\ Ortho[4] > 0 /\ Ortho[8] > 0
        /\ ViewportWidth <= ViewportHeight =>
              /\ Ortho[3] = 3 * Ortho[4]
              /\ Ortho[7] * ViewportWidth = 3 * ViewportHeight * Ortho[8]
        /\ ViewportWidth > ViewportHeight =>
              /\ Ortho[7] = 3 * Ortho[8]
              /\ Ortho[3] * ViewportHeight = 3 * ViewportWidth * Ortho[4]

\* a viewer zoomed to the ceiling was resized to 2 by 4: half-extents 3 and 6
C21_Witness ==
    /\ Resized
    /\ ViewportWidth = 2 /\ ViewportHeight = 4
    /\ zoom[TheViewer] = ZoomMax
    /\ Ortho[3] = 3 * Ortho[4]
    /\ Ortho[7] = 6 * Ortho[8]

\* C22: in every reachable state the stored bounds of a slot are those of its
\* vertex list: model_center the midpoint of the bounding box of the vertices
\* the renderer will draw, model_size their largest span along an axis (stated
\* for the vertex lists whose vertices all have three components).
C22_BoundsOfCurrentVertices ==
    \A s \in Slots :
        ( /\ obj_model[s].vertices # <<>>
          /\ \A i \in 1..Len(obj_model[s].vertices) : Len(obj_model[s].vertices[i]) = 3 ) =>
            /\ model_center[s] = Center(obj_model[s].vertices)
            /\ model_size[s] = Extent(obj_model[s].vertices)

\* C23: after a load every entry of the vertices list and of the normals list
\* has exactly three components (stated for the loads that report success).
C23_ThreeComponents ==
    (call.op = "load_obj" /\ ret.kind = "return" /\ ret.success) =>
        /\ \A i \in 1..Len(obj_model[call.slot].vertices) :
              Len(obj_model[call.slot].vertices[i]) = 3
        /\ \A i \in 1..Len(obj_model[call.slot].normals) :
              Len(obj_model[call.slot].normals[i]) = 3

\* The vertices of the mesh that the references of the face name.
VerticesOf(m, face) ==
    {m.vertices[face[i][1] + 1] :
        i \in {j \in 1..Len(face) : face[j][1] >= 0 /\ face[j][1] < Len(m.vertices)}}

\* C24: in a frame that paintGL completes, the vertices of the triangle stream
\* come three to a triangle, and the three vertices of every triangle are
\* vertices of one face: no face shifts the grouping of the faces after it.
C24_TrianglesOfOneFace ==
    (call.op = "paintGL" /\ ret = None /\ WellFormed(call.slot)) =>
        /\ Len(Drawn) % 3 = 0
        /\ \A k \in 1..Len(EmittedTriangles) :
              \E f \in 1..Len(obj_model[call.slot].faces) :
                  \A j \in 1..3 :
                      EmittedTriangles[k][j]
                          \in VerticesOf(obj_model[call.slot], obj_model[call.slot].faces[f])

\* C25: resizeGL does not fault for any width >= 0 and height >= 0: the aspect
\* ratio it divides by is never zero.
C25_ResizeNeverFaults ==
    (Resized /\ ViewportWidth >= 0 /\ ViewportHeight >= 0) =>
        (ret.kind # "raise" /\ Len(SelectSeq(gl, LAMBDA c : c.cmd = "glOrtho")) = 1)

\* C26: from the press at p0 on, after any moves with the left button held,
\* rotation_y has grown by 0.5 * (x - p0.x) degrees and rotation_x by
\* 0.5 * (y - p0.y), (x, y) being the position of the last move, whatever the
\* positions in between were; a move without the button changes no rotation
\* and records its position.
C26_DragTelescopes ==
    [][ /\ drag'.held =>
             /\ 2 * (rotation_y'[TheViewer] - drag'.rotation_y)
                  = Degrees(last_pos'[TheViewer][1] - drag'.p0[1])
             /\ 2 * (rotation_x'[TheViewer] - drag'.rotation_x)
                  = Degrees(last_pos'[TheViewer][2] - drag'.p0[2])
        /\ \A pos \in DragPositions :
             mouseMoveEvent(TheViewer, pos, FALSE) =>
                 /\ last_pos'[TheViewer] = pos
                 /\ rotation_x' = rotation_x /\ rotation_y' = rotation_y
                 /\ rotation_z' = rotation_z ]_vars

\* a second drag, begun at (2, 1) after a first drag, has gone by way of
\* another position to (1, 3): the rotation grew by that drag's (-1, 2) alone
C26_Witness ==
    /\ drag.held
    /\ events = MaxDragEvents
    /\ drag.p0 = <<2, 1>>
    /\ last_pos[TheViewer] = <<1, 3>>
    /\ drag.rotation_y # 0
    /\ rotation_y[TheViewer] = drag.rotation_y - 1
    /\ rotation_x[TheViewer] = drag.rotation_x + 2

\* C27: a wheel event whose vertical delta is zero leaves the zoom unchanged,
\* and no event with a delta of zero or more lowers the zoom.
C27_ZeroDeltaKeepsZoom ==
    [][ \A s \in Slots, d \in AngleDeltas :
          (d >= 0 /\ wheelEvent(s, d)) =>
              /\ zoom'[s] >= zoom[s]
              /\ d = 0 => zoom'[s] = zoom[s] ]_vars

\* C28: the Run button is disabled only while a process started by
\* run_command is starting or running, and is never enabled while a started
\* process is still running: whatever the input text, run_command does not end
\* with the button disabled and no process started.
C28_ButtonFollowsProcess ==
    /\ ~manager.run_button => manager.state # "NotRunning"
    /\ manager.state # "NotRunning" => ~manager.run_button

====
